---- MODULE Spec2Model ----
(***************************************************************************)
(* The four singly-linked lists of the repository over one node heap:      *)
(*   first.rs   exclusive stack (Box links, enum Link)                     *)
(*   second.rs  exclusive stack with peek and iterators (Option<Box>)      *)
(*   third.rs   persistent list (Option<Rc<Node>>)                         *)
(*   fifth.rs   queue with a raw, non-owning tail pointer                  *)
(* A behaviour exercises one of the four types (comp); the types do not    *)
(* interact.  A node lives at an address; alloc is the set of addresses    *)
(* the allocator has handed out and not yet taken back.                    *)
(***************************************************************************)
EXTENDS Integers, Sequences, FiniteSets, TLC

\* Bounds of the model: heap addresses, element values, persistent list values.
NumAddr == 3
MaxElem == 2
MaxLists == 2

\* ptr::null_mut() / Link::Empty / Option::None as a link; Option::None as a result.
Null == 0
None == 0

Addr == 1..NumAddr
Ptr == Addr \cup {Null}
Elems == 1..MaxElem
Handle == 1..MaxLists

VARIABLES
    comp,      \* which list type this behaviour exercises
    phase,     \* "live": between operations; "dropping": inside Drop::drop; "dropped"
    alloc,     \* addresses of the nodes currently allocated
    elem,      \* Node.elem of each address (None when not allocated)
    next,      \* Node.next of each address
    head,      \* List.head (first.rs, second.rs, fifth.rs)
    tail,      \* List.tail (fifth.rs)
    live,      \* third.rs: the list values that exist
    lhead,     \* third.rs: List.head of each list value
    rc,        \* third.rs: strong count of each Rc<Node>
    cur,       \* the drop loop's local: current_link (first, second), head (third)
    mref,      \* second.rs: the node the outstanding &mut T of peek_mut points into
    fault,     \* a pointer was dereferenced or freed while not allocated
    lastOp,    \* the operation that ran last
    ret,       \* what it returned (None, or the element)
    arg,       \* its element argument
    recv,      \* third.rs: the receiver of the last prepend, tail or head
    pending,   \* history: elements pushed and not yet popped, in push order
    emptied,   \* history: a stack or queue has held nodes and been emptied again
    expect,    \* history: third.rs, the element sequence each list value was built with
    itKind,    \* the iterator in existence: "none", "into_iter", "iter", "iter_mut"
    it,        \* Iter.next / IterMut.next: the node the cursor refers to
    yielded,   \* the nodes whose &mut elem IterMut::next has handed to the caller
    out,       \* history: what the iterator's next has returned so far, in order
    snap       \* history: the list's elements when the iterator was created

vars == <<comp, phase, alloc, elem, next, head, tail, live, lhead, rc, cur, mref,
          fault, lastOp, ret, arg, recv, pending, emptied, expect,
          itKind, it, yielded, out, snap>>

heapVars == <<alloc, elem, next, emptied>>
thirdVars == <<live, lhead, rc, recv, expect>>
iterVars == <<itKind, it, yielded, out, snap>>

\* No iterator borrows the list or has taken it over: the list can be used.
Unborrowed == itKind = "none" /\ UNCHANGED iterVars

----------------------------------------------------------------------------
\* Observations of a chain

\* The nodes met from p, in order.
RECURSIVE Chain(_, _, _)
Chain(p, nx, fuel) ==
    IF p = Null \/ fuel = 0 THEN <<>>
    ELSE <<p>> \o Chain(nx[p], nx, fuel - 1)

\* The elements met by following nx from p, at most fuel of them.
RECURSIVE Walk(_, _, _, _)
Walk(p, el, nx, fuel) ==
    IF p = Null \/ fuel = 0 THEN <<>>
    ELSE <<el[p]>> \o Walk(nx[p], el, nx, fuel - 1)

\* The addresses met by following nx from p.
RECURSIVE Reach(_, _, _)
Reach(p, nx, fuel) ==
    IF p = Null \/ fuel = 0 THEN {}
    ELSE {p} \cup Reach(nx[p], nx, fuel - 1)

Fuel == NumAddr + 1

\* What the list shows from its head.
View == Walk(head, elem, next, Fuel)

RECURSIVE Reverse(_)
Reverse(s) == IF s = <<>> THEN <<>> ELSE Reverse(Tail(s)) \o <<Head(s)>>

Front(s) == SubSeq(s, 1, Len(s) - 1)

Rest(s) == IF s = <<>> THEN <<>> ELSE Tail(s)

----------------------------------------------------------------------------
\* The state after construction: List::new() of the chosen type, empty heap.

Init ==
    /\ comp \in {"first", "second", "third", "fifth"}
    /\ phase = "live"
    /\ alloc = {}
    /\ elem = [a \in Addr |-> None]
    /\ next = [a \in Addr |-> Null]
    /\ head = Null
    /\ tail = Null
    /\ live = IF comp = "third" THEN {1} ELSE {}
    /\ lhead = [h \in Handle |-> Null]
    /\ rc = [a \in Addr |-> 0]
    /\ cur = Null
    /\ mref = Null
    /\ fault = FALSE
    /\ lastOp = "new"
    /\ ret = None
    /\ arg = None
    /\ recv = 1
    /\ pending = <<>>
    /\ emptied = FALSE
    /\ expect = [h \in Handle |-> <<>>]
    /\ itKind = "none"
    /\ it = Null
    /\ yielded = {}
    /\ out = <<>>
    /\ snap = <<>>

\* The allocator takes a node back: its contents are gone.
Released(a) ==
    /\ alloc' = alloc \ {a}
    /\ elem' = [elem EXCEPT ![a] = None]
    /\ next' = [next EXCEPT ![a] = Null]

\* A Box<Node> is dropped (first.rs, second.rs, fifth.rs).
Freed(a) ==
    /\ Released(a)
    /\ emptied' = (emptied \/ alloc = {a})

----------------------------------------------------------------------------
\* first.rs

\* new_node.next: mem::replace(&mut self.head, Link::Empty) hands over the old head.
first_push_next_lost == Null
first_push_next == head

first_push(e) ==
    /\ comp = "first" /\ phase = "live"
    /\ \E new_node \in Addr \ alloc :
        /\ alloc' = alloc \cup {new_node}
        /\ emptied' = emptied
        /\ elem' = [elem EXCEPT ![new_node] = e]
        /\ next' = [next EXCEPT ![new_node] = first_push_next]
        /\ head' = new_node
    /\ lastOp' = "push" /\ ret' = None /\ arg' = e
    /\ pending' = Append(pending, e)
    /\ UNCHANGED <<comp, phase, tail, cur, mref, fault>>
    /\ UNCHANGED thirdVars
    /\ UNCHANGED iterVars

first_pop ==
    /\ comp = "first" /\ phase = "live"
    /\ IF head = Null
       THEN /\ ret' = None
            /\ UNCHANGED <<head, pending>>
            /\ UNCHANGED heapVars
       ELSE LET node == head IN
            /\ head' = next[node]
            /\ ret' = elem[node]
            /\ Freed(node)
            /\ pending' = Front(pending)
    /\ lastOp' = "pop" /\ arg' = None
    /\ UNCHANGED <<comp, phase, tail, cur, mref, fault>>
    /\ UNCHANGED thirdVars
    /\ UNCHANGED iterVars

\* Drop::drop, line 45: current_link takes the chain, head is left Empty.
first_drop_begin ==
    /\ comp = "first" /\ phase = "live"
    /\ cur' = head
    /\ head' = Null
    /\ phase' = "dropping"
    /\ lastOp' = "drop" /\ ret' = None /\ arg' = None
    /\ pending' = <<>>
    /\ UNCHANGED <<comp, tail, mref, fault>>
    /\ UNCHANGED heapVars
    /\ UNCHANGED thirdVars
    /\ UNCHANGED iterVars

\* mem::replace(&mut boxed_node.next, Link::Empty): the successor, taken out of
\* the node before the node goes out of scope.
first_drop_next_dropped(boxed_node) == Null
first_drop_next(boxed_node) == next[boxed_node]

\* One iteration of the while-let: the successor is taken out of boxed_node, which
\* is then freed with an Empty next.
first_drop_step ==
    /\ comp = "first" /\ phase = "dropping" /\ cur # Null
    /\ LET boxed_node == cur IN
        /\ cur' = first_drop_next(boxed_node)
        /\ Freed(boxed_node)
    /\ UNCHANGED <<comp, phase, head, tail, mref, fault, lastOp, ret, arg, pending>>
    /\ UNCHANGED thirdVars
    /\ UNCHANGED iterVars

\* The while-let meets Link::Empty: drop returns.
first_drop_end ==
    /\ comp = "first" /\ phase = "dropping" /\ cur = Null
    /\ phase' = "dropped"
    /\ UNCHANGED <<comp, head, tail, cur, mref, fault, lastOp, ret, arg, pending>>
    /\ UNCHANGED heapVars
    /\ UNCHANGED thirdVars
    /\ UNCHANGED iterVars

----------------------------------------------------------------------------
\* second.rs

\* new_node.next: self.head.take() hands over the old head.
second_push_next == head

second_push(e) ==
    /\ Unborrowed
    /\ comp = "second" /\ phase = "live"
    /\ \E new_node \in Addr \ alloc :
        /\ alloc' = alloc \cup {new_node}
        /\ emptied' = emptied
        /\ elem' = [elem EXCEPT ![new_node] = e]
        /\ next' = [next EXCEPT ![new_node] = second_push_next]
        /\ head' = new_node
    /\ lastOp' = "push" /\ ret' = None /\ arg' = e
    /\ mref' = Null
    /\ pending' = Append(pending, e)
    /\ UNCHANGED <<comp, phase, tail, cur, fault>>
    /\ UNCHANGED thirdVars

second_pop_call ==
    /\ comp = "second" /\ phase = "live"
    /\ IF head = Null
       THEN /\ ret' = None
            /\ UNCHANGED <<head, pending>>
            /\ UNCHANGED heapVars
       ELSE LET node == head IN
            /\ head' = next[node]
            /\ ret' = elem[node]
            /\ Freed(node)
            /\ pending' = Front(pending)
    /\ arg' = None
    /\ mref' = Null
    /\ UNCHANGED <<comp, phase, tail, cur, fault>>
    /\ UNCHANGED thirdVars

second_pop ==
    /\ Unborrowed
    /\ second_pop_call
    /\ lastOp' = "pop"

\* self.head.as_ref().map(|node| &node.elem), read by the caller.
second_peek_target == head

second_peek ==
    /\ Unborrowed
    /\ comp = "second" /\ phase = "live"
    /\ ret' = IF second_peek_target = Null THEN None ELSE elem[second_peek_target]
    /\ lastOp' = "peek" /\ arg' = None
    /\ mref' = Null
    /\ UNCHANGED <<comp, phase, head, tail, cur, fault, pending>>
    /\ UNCHANGED heapVars
    /\ UNCHANGED thirdVars

\* self.head.as_mut().map(|node| &mut node.elem): the caller holds the &mut T.
second_peek_mut_target_second_node == IF head = Null THEN Null ELSE next[head]
second_peek_mut_target == head

second_peek_mut ==
    /\ Unborrowed
    /\ comp = "second" /\ phase = "live"
    /\ mref' = second_peek_mut_target
    /\ ret' = IF second_peek_mut_target = Null THEN None ELSE elem[second_peek_mut_target]
    /\ lastOp' = "peek_mut" /\ arg' = None
    /\ UNCHANGED <<comp, phase, head, tail, cur, fault, pending>>
    /\ UNCHANGED heapVars
    /\ UNCHANGED thirdVars

\* The caller assigns through the reference peek_mut returned (*value = v),
\* while the borrow lasts: until the list is used again.
second_write(v) ==
    /\ Unborrowed
    /\ comp = "second" /\ phase = "live" /\ mref # Null
    /\ elem' = [elem EXCEPT ![mref] = v]
    /\ lastOp' = "write" /\ ret' = None /\ arg' = v
    /\ pending' = Append(Front(pending), v)
    /\ UNCHANGED <<comp, phase, alloc, next, head, tail, cur, mref, fault, emptied>>
    /\ UNCHANGED thirdVars

\* Drop::drop, line 82: current_link takes the chain, head is left None.
second_drop_begin ==
    /\ Unborrowed
    /\ comp = "second" /\ phase = "live"
    /\ cur' = head
    /\ head' = Null
    /\ phase' = "dropping"
    /\ lastOp' = "drop" /\ ret' = None /\ arg' = None
    /\ mref' = Null
    /\ pending' = <<>>
    /\ UNCHANGED <<comp, tail, fault>>
    /\ UNCHANGED heapVars
    /\ UNCHANGED thirdVars

\* One iteration of the while-let: boxed_node.next.take(), then boxed_node is freed.
second_drop_step ==
    /\ Unborrowed
    /\ comp = "second" /\ phase = "dropping" /\ cur # Null
    /\ LET boxed_node == cur IN
        /\ cur' = next[boxed_node]
        /\ Freed(boxed_node)
    /\ UNCHANGED <<comp, phase, head, tail, mref, fault, lastOp, ret, arg, pending>>
    /\ UNCHANGED thirdVars

second_drop_end ==
    /\ Unborrowed
    /\ comp = "second" /\ phase = "dropping" /\ cur = Null
    /\ phase' = "dropped"
    /\ UNCHANGED <<comp, head, tail, cur, mref, fault, lastOp, ret, arg, pending>>
    /\ UNCHANGED heapVars
    /\ UNCHANGED thirdVars

\* into_iter(self): the list moves into IntoIter(self); nothing of it changes.
second_into_iter ==
    /\ comp = "second" /\ phase = "live" /\ itKind = "none"
    /\ itKind' = "into_iter"
    /\ it' = Null
    /\ yielded' = {}
    /\ out' = <<>>
    /\ snap' = View
    /\ lastOp' = "into_iter" /\ ret' = None /\ arg' = None
    /\ mref' = Null
    /\ UNCHANGED <<comp, phase, head, tail, cur, fault, pending>>
    /\ UNCHANGED heapVars
    /\ UNCHANGED thirdVars

\* IntoIter::next: self.0.pop()
second_into_iter_next ==
    /\ itKind = "into_iter"
    /\ second_pop_call
    /\ lastOp' = "next"
    /\ out' = IF ret' = None THEN out ELSE Append(out, ret')
    /\ UNCHANGED <<itKind, it, yielded, snap>>

\* The IntoIter goes out of scope: its field, the list, is dropped (Drop::drop).
second_into_iter_drop ==
    /\ comp = "second" /\ phase = "live" /\ itKind = "into_iter"
    /\ cur' = head
    /\ head' = Null
    /\ phase' = "dropping"
    /\ lastOp' = "drop" /\ ret' = None /\ arg' = None
    /\ pending' = <<>>
    /\ itKind' = "none"
    /\ out' = <<>>
    /\ snap' = <<>>
    /\ UNCHANGED <<comp, tail, mref, fault, it, yielded>>
    /\ UNCHANGED heapVars
    /\ UNCHANGED thirdVars

\* next: self.head.as_deref()
second_iter_cursor_skips == IF head = Null THEN Null ELSE next[head]
second_iter_cursor == head

\* iter(&self): Iter { next: self.head.as_deref() }
second_iter ==
    /\ comp = "second" /\ phase = "live" /\ itKind = "none"
    /\ itKind' = "iter"
    /\ it' = second_iter_cursor
    /\ yielded' = {}
    /\ out' = <<>>
    /\ snap' = View
    /\ lastOp' = "iter" /\ ret' = None /\ arg' = None
    /\ mref' = Null
    /\ UNCHANGED <<comp, phase, head, tail, cur, fault, pending>>
    /\ UNCHANGED heapVars
    /\ UNCHANGED thirdVars

\* self.next = node.next.as_deref()
second_iter_advance_stuck(node) == node
second_iter_advance(node) == next[node]

\* Iter::next: self.next.map(|node| { self.next = ...; &node.elem })
second_iter_next ==
    /\ comp = "second" /\ phase = "live" /\ itKind = "iter"
    /\ IF it = Null
       THEN /\ ret' = None
            /\ UNCHANGED <<it, out>>
       ELSE LET node == it IN
            /\ it' = second_iter_advance(node)
            /\ ret' = elem[node]
            /\ out' = Append(out, elem[node])
    /\ lastOp' = "next" /\ arg' = None
    /\ UNCHANGED <<comp, phase, head, tail, cur, mref, fault, pending>>
    /\ UNCHANGED <<itKind, yielded, snap>>
    /\ UNCHANGED heapVars
    /\ UNCHANGED thirdVars

\* iter_mut(&mut self): IterMut { next: self.head.as_deref_mut() }
second_iter_mut ==
    /\ comp = "second" /\ phase = "live" /\ itKind = "none"
    /\ itKind' = "iter_mut"
    /\ it' = head
    /\ yielded' = {}
    /\ out' = <<>>
    /\ snap' = View
    /\ lastOp' = "iter_mut" /\ ret' = None /\ arg' = None
    /\ mref' = Null
    /\ UNCHANGED <<comp, phase, head, tail, cur, fault, pending>>
    /\ UNCHANGED heapVars
    /\ UNCHANGED thirdVars

\* self.next = node.next.as_deref_mut(), after self.next.take() has emptied the
\* cursor.
second_iter_mut_advance_kept(node) == node
second_iter_mut_advance(node) == next[node]

\* IterMut::next: self.next.take().map(|node| { self.next = ...; &mut node.elem })
second_iter_mut_next ==
    /\ comp = "second" /\ phase = "live" /\ itKind = "iter_mut"
    /\ IF it = Null
       THEN /\ ret' = None
            /\ UNCHANGED <<it, out, yielded>>
       ELSE LET node == it IN
            /\ it' = second_iter_mut_advance(node)
            /\ ret' = elem[node]
            /\ yielded' = yielded \cup {node}
            /\ out' = Append(out, elem[node])
    /\ lastOp' = "next" /\ arg' = None
    /\ UNCHANGED <<comp, phase, head, tail, cur, mref, fault, pending>>
    /\ UNCHANGED <<itKind, snap>>
    /\ UNCHANGED heapVars
    /\ UNCHANGED thirdVars

\* The caller assigns through one of the references IterMut::next returned
\* (Item = &'a mut T: a reference lives as long as the iterator's borrow).
\* The histories follow the element: they record what the references show.
second_iter_mut_write(node, v) ==
    /\ comp = "second" /\ phase = "live" /\ itKind = "iter_mut"
    /\ node \in yielded
    /\ elem' = [elem EXCEPT ![node] = v]
    /\ LET chain == Chain(head, next, Fuel)
           k == CHOOSE i \in 1..Len(chain) : chain[i] = node
       IN  /\ out' = [out EXCEPT ![k] = v]
           /\ snap' = [snap EXCEPT ![k] = v]
           /\ pending' = [pending EXCEPT ![Len(pending) + 1 - k] = v]
    /\ lastOp' = "write_item" /\ ret' = None /\ arg' = v
    /\ UNCHANGED <<comp, phase, alloc, next, head, tail, cur, mref, fault, emptied>>
    /\ UNCHANGED <<itKind, it, yielded>>
    /\ UNCHANGED thirdVars

\* The Iter or IterMut goes out of scope: the borrow of the list ends.
second_iter_end ==
    /\ comp = "second" /\ phase = "live" /\ itKind \in {"iter", "iter_mut"}
    /\ itKind' = "none"
    /\ it' = Null
    /\ yielded' = {}
    /\ out' = <<>>
    /\ snap' = <<>>
    /\ lastOp' = "iter_end" /\ ret' = None /\ arg' = None
    /\ UNCHANGED <<comp, phase, head, tail, cur, mref, fault, pending>>
    /\ UNCHANGED heapVars
    /\ UNCHANGED thirdVars

----------------------------------------------------------------------------
\* fifth.rs

\* A raw pointer is good to dereference or to free while the node it was taken
\* from is allocated.  push and pop free nothing before they use self.tail and
\* self.head, so the pointer is judged in the state the call starts in.
Valid(p) == p \in alloc

\* Line 31, (*self.tail).next = raw_tail.  Through a dangling tail the write is
\* undefined: the cell may end up holding anything.
fifth_push_link_forgotten(new_tail) == {[next EXCEPT ![new_tail] = Null]}
fifth_push_link_circular(new_tail) ==
    IF tail = Null THEN {[next EXCEPT ![new_tail] = Null]}
    ELSE {[next EXCEPT ![new_tail] = head, ![tail] = new_tail]}
fifth_push_link(new_tail) ==
    IF tail = Null THEN {[next EXCEPT ![new_tail] = Null]}
    ELSE IF Valid(tail) THEN {[next EXCEPT ![new_tail] = Null, ![tail] = new_tail]}
    ELSE {[next EXCEPT ![new_tail] = Null, ![tail] = p] : p \in Ptr}

\* Lines 30-34: an empty list takes the new node as its head.
fifth_push_head_always(new_tail) == new_tail
fifth_push_head(new_tail) == IF tail # Null THEN head ELSE new_tail

fifth_push(e) ==
    /\ comp = "fifth" /\ phase = "live"
    /\ \E new_tail \in Addr \ alloc :
        /\ alloc' = alloc \cup {new_tail}
        /\ emptied' = emptied
        /\ elem' = [elem EXCEPT ![new_tail] = e]
        /\ next' \in fifth_push_link(new_tail)
        /\ head' = fifth_push_head(new_tail)
        /\ tail' = new_tail
    /\ fault' = (fault \/ (tail # Null /\ ~Valid(tail)))
    /\ lastOp' = "push" /\ ret' = None /\ arg' = e
    /\ pending' = Append(pending, e)
    /\ UNCHANGED <<comp, phase, cur, mref>>
    /\ UNCHANGED thirdVars
    /\ UNCHANGED iterVars

\* Lines 46-48: the pop that empties the list resets tail.
fifth_pop_tail_kept(new_head) == tail
fifth_pop_tail(new_head) == IF new_head = Null THEN Null ELSE tail

\* Line 45: self.head = head.next
fifth_pop_head(node) == next[node]

\* List::pop, called by the user and by Drop::drop.  Box::from_raw(self.head)
\* owns the node and frees it when pop returns.  Through a dangling head the
\* call is undefined: fault records it, and what follows fault means nothing.
fifth_pop_call ==
    IF head = Null
    THEN /\ ret' = None
         /\ UNCHANGED <<head, tail, fault, pending>>
         /\ UNCHANGED heapVars
    ELSE LET node == head IN
         /\ fault' = (fault \/ ~Valid(node))
         /\ head' = fifth_pop_head(node)
         /\ tail' = fifth_pop_tail(fifth_pop_head(node))
         /\ ret' = elem[node]
         /\ Freed(node)
         /\ pending' = Rest(pending)

fifth_pop ==
    /\ comp = "fifth" /\ phase = "live"
    /\ fifth_pop_call
    /\ lastOp' = "pop" /\ arg' = None
    /\ UNCHANGED <<comp, phase, cur, mref>>
    /\ UNCHANGED thirdVars
    /\ UNCHANGED iterVars

\* Drop::drop: while let Some(_) = self.pop() {}.  One iteration is one pop; the
\* pop that returns None ends the loop.
fifth_drop_begin ==
    /\ comp = "fifth" /\ phase = "live"
    /\ phase' = "dropping"
    /\ lastOp' = "drop" /\ ret' = None /\ arg' = None
    /\ UNCHANGED <<comp, head, tail, cur, mref, fault, pending>>
    /\ UNCHANGED heapVars
    /\ UNCHANGED thirdVars
    /\ UNCHANGED iterVars

fifth_drop_step ==
    /\ comp = "fifth" /\ phase = "dropping"
    /\ fifth_pop_call
    /\ phase' = IF head = Null THEN "dropped" ELSE "dropping"
    /\ UNCHANGED <<comp, cur, mref, lastOp, arg>>
    /\ UNCHANGED thirdVars
    /\ UNCHANGED iterVars

----------------------------------------------------------------------------
\* third.rs

\* What list value h shows from its head.
ViewOf(h) == Walk(lhead[h], elem, next, Fuel)

\* The name bound to a newly returned list value.
NewHandle == CHOOSE h \in Handle \ live : \A g \in Handle \ live : h <= g

\* Rc::new: the address of the new node.  Safe code cannot observe addresses, so
\* the lowest free one stands for whichever the allocator returns.
NewNode == CHOOSE a \in Addr \ alloc : \A b \in Addr \ alloc : a <= b

\* Rc::clone of a link: one more strong reference to the node, if there is one.
CloneLink_uncounted(p) == rc
CloneLink(p) == IF p = Null THEN rc ELSE [rc EXCEPT ![p] = @ + 1]

third_new ==
    /\ Unborrowed
    /\ comp = "third" /\ phase = "live" /\ live # Handle
    /\ live' = live \cup {NewHandle}
    /\ lhead' = [lhead EXCEPT ![NewHandle] = Null]
    /\ expect' = [expect EXCEPT ![NewHandle] = <<>>]
    /\ recv' = 1
    /\ lastOp' = "new" /\ ret' = None /\ arg' = None
    /\ UNCHANGED <<comp, phase, head, tail, rc, cur, mref, fault, pending>>
    /\ UNCHANGED heapVars

\* next: self.head.clone()
third_prepend_next_empty(h) == Null
third_prepend_next(h) == lhead[h]

\* The list value returned; the receiver is borrowed as &self and keeps its head.
third_prepend_heads_pushed(h, node) == [lhead EXCEPT ![NewHandle] = node, ![h] = node]
third_prepend_heads(h, node) == [lhead EXCEPT ![NewHandle] = node]

third_prepend(h, e) ==
    /\ Unborrowed
    /\ comp = "third" /\ phase = "live" /\ h \in live /\ live # Handle
    /\ alloc # Addr
    /\ LET node == NewNode IN
        /\ alloc' = alloc \cup {node}
        /\ emptied' = emptied
        /\ elem' = [elem EXCEPT ![node] = e]
        /\ next' = [next EXCEPT ![node] = third_prepend_next(h)]
        /\ rc' = [CloneLink(third_prepend_next(h)) EXCEPT ![node] = 1]
        /\ lhead' = third_prepend_heads(h, node)
    /\ live' = live \cup {NewHandle}
    /\ expect' = [expect EXCEPT ![NewHandle] = <<e>> \o expect[h]]
    /\ recv' = h
    /\ lastOp' = "prepend" /\ ret' = None /\ arg' = None
    /\ UNCHANGED <<comp, phase, head, tail, cur, mref, fault, pending>>

\* head: self.head.as_ref().and_then(|node| node.next.clone())
third_tail_head_same(h) == lhead[h]
third_tail_head(h) == IF lhead[h] = Null THEN Null ELSE next[lhead[h]]

third_tail(h) ==
    /\ Unborrowed
    /\ comp = "third" /\ phase = "live" /\ h \in live /\ live # Handle
    /\ lhead' = [lhead EXCEPT ![NewHandle] = third_tail_head(h)]
    /\ rc' = CloneLink(third_tail_head(h))
    /\ live' = live \cup {NewHandle}
    /\ expect' = [expect EXCEPT ![NewHandle] =
                     Rest(expect[h])]
    /\ recv' = h
    /\ lastOp' = "tail" /\ ret' = None /\ arg' = None
    /\ UNCHANGED <<comp, phase, head, tail, cur, mref, fault, pending>>
    /\ UNCHANGED heapVars

\* self.head.as_ref().map(|node| &node.elem), read by the caller.
third_head(h) ==
    /\ Unborrowed
    /\ comp = "third" /\ phase = "live" /\ h \in live
    /\ ret' = IF lhead[h] = Null THEN None ELSE elem[lhead[h]]
    /\ recv' = h
    /\ lastOp' = "head" /\ arg' = None
    /\ UNCHANGED <<comp, phase, head, tail, live, lhead, rc, cur, mref, fault,
                   pending, expect>>
    /\ UNCHANGED heapVars

\* Drop::drop of list value h, line 56: the local head takes the link.
third_drop_begin(h) ==
    /\ Unborrowed
    /\ comp = "third" /\ phase = "live" /\ h \in live
    /\ cur' = lhead[h]
    /\ lhead' = [lhead EXCEPT ![h] = Null]
    /\ live' = live \ {h}
    /\ expect' = [expect EXCEPT ![h] = <<>>]
    /\ phase' = "dropping"
    /\ recv' = 1
    /\ lastOp' = "drop" /\ ret' = None /\ arg' = None
    /\ UNCHANGED <<comp, head, tail, rc, mref, fault, pending>>
    /\ UNCHANGED heapVars

\* Rc::try_unwrap(node) is Ok exactly when node is the only strong reference.
third_try_unwrap_always(node) == TRUE
third_try_unwrap_never(node) == FALSE
third_try_unwrap_ok(node) == rc[node] = 1

\* Err(node): the Rc handed back is dropped at the end of the if-let, one strong
\* reference fewer on that node and on no other.
third_drop_shared_cascade(node) ==
    [a \in Addr |-> IF a \in Reach(node, next, Fuel) THEN rc[a] - 1 ELSE rc[a]]
third_drop_shared(node) == [rc EXCEPT ![node] = @ - 1]

\* One iteration of the while-let.  Ok: the node leaves its Rc, its next is taken
\* as the new head, and the node is freed.  Err: the Rc handed back is released
\* (one strong reference fewer) and the loop breaks.
third_drop_step ==
    /\ Unborrowed
    /\ comp = "third" /\ phase = "dropping" /\ cur # Null
    /\ LET node == cur IN
        IF third_try_unwrap_ok(node)
        THEN /\ cur' = next[node]
             /\ rc' = [rc EXCEPT ![node] = 0]
             /\ Released(node)
             /\ emptied' = emptied
             /\ phase' = "dropping"
        ELSE /\ rc' = third_drop_shared(node)
             /\ cur' = Null
             /\ phase' = "live"
             /\ UNCHANGED heapVars
    /\ UNCHANGED <<comp, head, tail, live, lhead, mref, fault, lastOp, ret, arg,
                   recv, pending, expect>>

\* The while-let meets None: drop returns.
third_drop_end ==
    /\ Unborrowed
    /\ comp = "third" /\ phase = "dropping" /\ cur = Null
    /\ phase' = "live"
    /\ UNCHANGED <<comp, head, tail, cur, mref, fault, lastOp, ret, arg, pending>>
    /\ UNCHANGED heapVars
    /\ UNCHANGED thirdVars

\* iter(&self): Iter { next: self.head.as_deref() }
third_iter(h) ==
    /\ comp = "third" /\ phase = "live" /\ h \in live /\ itKind = "none"
    /\ itKind' = "iter"
    /\ it' = lhead[h]
    /\ yielded' = {}
    /\ out' = <<>>
    /\ snap' = ViewOf(h)
    /\ recv' = h
    /\ lastOp' = "iter" /\ ret' = None /\ arg' = None
    /\ UNCHANGED <<comp, phase, head, tail, cur, mref, fault, pending>>
    /\ UNCHANGED <<live, lhead, rc, expect>>
    /\ UNCHANGED heapVars

\* self.next = node.next.as_deref()
third_iter_advance(node) == next[node]

\* Iter::next: self.next.map(|node| { self.next = ...; &node.elem })
third_iter_next ==
    /\ comp = "third" /\ phase = "live" /\ itKind = "iter"
    /\ IF it = Null
       THEN /\ ret' = None
            /\ UNCHANGED <<it, out>>
       ELSE LET node == it IN
            /\ it' = third_iter_advance(node)
            /\ ret' = elem[node]
            /\ out' = Append(out, elem[node])
    /\ lastOp' = "next" /\ arg' = None
    /\ UNCHANGED <<comp, phase, head, tail, cur, mref, fault, pending>>
    /\ UNCHANGED <<itKind, yielded, snap>>
    /\ UNCHANGED heapVars
    /\ UNCHANGED thirdVars

\* The Iter goes out of scope: the borrow of the list value ends.
third_iter_end ==
    /\ comp = "third" /\ phase = "live" /\ itKind = "iter"
    /\ itKind' = "none"
    /\ it' = Null
    /\ out' = <<>>
    /\ snap' = <<>>
    /\ lastOp' = "iter_end" /\ ret' = None /\ arg' = None
    /\ UNCHANGED <<comp, phase, head, tail, cur, mref, fault, pending, yielded>>
    /\ UNCHANGED heapVars
    /\ UNCHANGED thirdVars

----------------------------------------------------------------------------
NextFirst ==
    \/ \E e \in Elems : first_push(e)
    \/ first_pop
    \/ first_drop_begin
    \/ first_drop_step
    \/ first_drop_end

NextSecond ==
    \/ \E e \in Elems : second_push(e)
    \/ second_pop
    \/ second_peek
    \/ second_peek_mut
    \/ \E v \in Elems : second_write(v)
    \/ second_drop_begin
    \/ second_drop_step
    \/ second_drop_end

NextThird ==
    \/ third_new
    \/ \E h \in Handle, e \in Elems : third_prepend(h, e)
    \/ \E h \in Handle : third_tail(h)
    \/ \E h \in Handle : third_head(h)
    \/ \E h \in Handle : third_drop_begin(h)
    \/ third_drop_step
    \/ third_drop_end

NextFifth ==
    \/ \E e \in Elems : fifth_push(e)
    \/ fifth_pop
    \/ fifth_drop_begin
    \/ fifth_drop_step

Next == NextFirst \/ NextSecond \/ NextThird \/ NextFifth

\* All four list types.
Spec == Init /\ [][Next]_vars

\* The two stacks.
InitStack == Init /\ comp \in {"first", "second"}
NextStack == NextFirst \/ NextSecond
SpecStack == InitStack /\ [][NextStack]_vars

\* The queue.
InitQueue == Init /\ comp = "fifth"
SpecQueue == InitQueue /\ [][NextFifth]_vars

\* The queue, where a drop that has begun runs on: drop is one call, and the
\* thread that made it executes its loop.
SpecQueueFair == SpecQueue /\ WF_vars(fifth_drop_step)

\* The persistent list.
InitThird == Init /\ comp = "third"
SpecThird == InitThird /\ [][NextThird]_vars

\* The lists that have iterators, with their iterators.  An iterator runs from
\* its creation to its end without other operations on the lists in between.
NextSecondIter ==
    \/ second_into_iter
    \/ second_into_iter_next
    \/ second_into_iter_drop
    \/ second_iter
    \/ second_iter_next
    \/ second_iter_mut
    \/ second_iter_mut_next
    \/ \E node \in Addr, v \in Elems : second_iter_mut_write(node, v)
    \/ second_iter_end
NextThirdIter ==
    \/ \E h \in Handle, e \in Elems : third_prepend(h, e)
    \/ \E h \in Handle : third_drop_begin(h)
    \/ third_drop_step
    \/ third_drop_end
    \/ \E h \in Handle : third_iter(h)
    \/ third_iter_next
    \/ third_iter_end
InitIter == Init /\ comp \in {"second", "third"}
NextIter == NextSecond \/ NextSecondIter \/ NextThirdIter
SpecIter == InitIter /\ [][NextIter]_vars

\* The lists whose drop is a loop over the chain, where a drop that has begun
\* runs on: drop is one call, and the thread that made it executes its loop.
\* third.rs lists are built by prepend.
DropLoop ==
    \/ first_drop_step
    \/ first_drop_end
    \/ second_drop_step
    \/ second_drop_end
    \/ third_drop_step
    \/ third_drop_end
NextThirdBuild ==
    \/ \E h \in Handle, e \in Elems : third_prepend(h, e)
    \/ \E h \in Handle : third_drop_begin(h)
InitTeardown == Init /\ comp # "fifth"
NextTeardown == NextFirst \/ NextSecond \/ NextThirdBuild \/ DropLoop
SpecTeardown == InitTeardown /\ [][NextTeardown]_vars /\ WF_vars(DropLoop)

\* The lists with one owner per node: the stacks and the queue.
InitExclusive == Init /\ comp # "third"
NextExclusive == NextFirst \/ NextSecond \/ NextFifth
SpecExclusive == InitExclusive /\ [][NextExclusive]_vars

----------------------------------------------------------------------------
\* Claims about the stacks and the queue

\* A step that is a call of pop by the user (Drop::drop records "drop").
PopStep == lastOp' = "pop" /\ phase = "live"

\* C1: on the stacks of first.rs and second.rs, whatever the pushes and pops
\* before it, a pop returns the element pushed last among those not yet popped,
\* and None when there is none.
C1_StackLifo ==
    [][PopStep =>
        ret' = IF pending = <<>> THEN None ELSE pending[Len(pending)]]_vars

\* A pop of first.rs returned an element while two older ones, different from it
\* and from each other, stay behind.
C1_Witness ==
    /\ comp = "first" /\ lastOp = "pop" /\ ret # None
    /\ Len(pending) = 2 /\ pending[1] # pending[2] /\ View = Reverse(pending)

\* C2: on the queue of fifth.rs, whatever the pushes and pops before it, also
\* after the queue was drained and refilled, a pop returns the oldest element
\* pushed and not yet popped, and None when there is none.
C2_QueueFifo ==
    [][PopStep =>
        ret' = IF pending = <<>> THEN None ELSE Head(pending)]_vars

\* A pop on a queue that had been drained and refilled returned the oldest element
\* and left a newer, different one.
C2_Witness ==
    /\ comp = "fifth" /\ lastOp = "pop" /\ emptied
    /\ ret # None /\ pending # <<>> /\ Head(pending) # ret /\ View = pending

\* C3: after new() and after every push and pop of the queue, tail is null
\* exactly when head is null; otherwise tail is reachable from head, its next is
\* null, and no other reachable node has a null next.
C3_TailInvariant ==
    comp = "fifth" =>
        /\ (tail = Null) <=> (head = Null)
        /\ tail # Null =>
            /\ tail \in Reach(head, next, Fuel)
            /\ next[tail] = Null
            /\ \A a \in Reach(head, next, Fuel) : next[a] = Null => a = tail

\* A refilled queue of at least two nodes: tail is not head.
C3_Witness ==
    /\ comp = "fifth" /\ emptied /\ lastOp = "push"
    /\ head # Null /\ tail # head /\ Cardinality(alloc) >= 2

\* C4: over any pushes, pops and the final drop of the queue, no pointer is
\* dereferenced or freed unless its node is allocated; the nodes allocated are
\* exactly those on the chain from head, which tail points into; a step frees at
\* most the node head pointed to, which neither head nor tail refers to
\* afterwards; and once drop has returned nothing is allocated.
C4_QueueMemorySafe ==
    /\ [](comp = "fifth" =>
            /\ ~fault
            /\ alloc = Reach(head, next, Fuel)
            /\ tail \in alloc \cup {Null}
            /\ phase = "dropped" => alloc = {})
    /\ [][comp = "fifth" =>
            \A a \in alloc \ alloc' :
                /\ a = head
                /\ a \notin Reach(head', next', Fuel)
                /\ tail' # a]_vars

\* After the pop that emptied the queue, two more pushes went through tail.
C4_Witness ==
    /\ comp = "fifth" /\ emptied /\ lastOp = "push" /\ ~fault
    /\ Cardinality(alloc) = 2 /\ next[head] = tail

\* The program's state after List::new(): no node, head and tail null.
AsNew == head = Null /\ tail = Null /\ alloc = {}

\* C5: on an empty stack or queue, pop, peek and peek_mut return None and leave
\* the list as new() made it; the push that follows gives the one-element list
\* that a push on a new list gives.
C5_EmptyIsAValue ==
    [][/\ (lastOp' \in {"pop", "peek", "peek_mut"} /\ phase = "live" /\ head = Null) =>
            /\ ret' = None
            /\ AsNew'
            /\ mref' = Null
       /\ (lastOp' = "push" /\ lastOp \in {"pop", "peek", "peek_mut"} /\ ret = None) =>
            /\ Walk(head', elem', next', Fuel) = <<arg'>>
            /\ alloc' = {head'}
            /\ comp = "fifth" => tail' = head']_vars

\* A list that held nodes was emptied, and a pop on it returned None.
C5_Witness ==
    /\ emptied /\ lastOp = "pop" /\ ret = None /\ AsNew /\ phase = "live"

----------------------------------------------------------------------------
\* Claims about the persistent list

\* What list value h shows in the next state.
ViewOfNext(h) == Walk(lhead'[h], elem', next', Fuel)

\* The nodes on list value h's chain.
NodesOf(h) == Reach(lhead[h], next, Fuel)

C7_SequenceModel ==
    (comp = "third" /\ phase = "live" /\ lastOp # "drop") =>
        /\ \A h \in live : ViewOf(h) = expect[h]
        /\ lastOp = "head" =>
            ret = IF expect[recv] = <<>> THEN None ELSE Head(expect[recv])

\* tail() of a two-element list returned the list of its second element, which
\* shares that node.
C7_Witness ==
    /\ lastOp = "tail"
    /\ \E h, g \in live :
        /\ h # g /\ Len(expect[h]) = 2 /\ expect[h][1] # expect[h][2]
        /\ expect[g] = Tail(expect[h]) /\ lhead[g] = next[lhead[h]]

\* C8: in every state, those inside a drop included, every node on the chain
\* of a list value that still exists is allocated and that list shows its whole
\* sequence; a node is allocated exactly while its count is at least one, so
\* none is destroyed before its count has reached zero.
C8_DropSafe ==
    comp = "third" =>
        /\ \A h \in live :
            /\ NodesOf(h) \subseteq alloc
            /\ ViewOf(h) = expect[h]
        /\ \A a \in Addr : a \in alloc <=> rc[a] >= 1

\* The drop of one list value has reached a node that another list value
\* still holds.
C8_Witness ==
    /\ comp = "third" /\ phase = "dropping" /\ cur # Null /\ rc[cur] >= 2
    /\ \E h \in live : cur \in NodesOf(h)

\* The nodes some list value that exists can reach from its head.
Owned == UNION {NodesOf(h) : h \in live}

\* C9: between operations every allocated node is on the chain of a list value
\* that exists (inside a drop, or on the chain the drop loop still holds); once
\* every list value has been dropped no node is allocated.
C9_NoLeak ==
    comp = "third" =>
        /\ phase = "live" => alloc = Owned
        /\ phase = "dropping" => alloc = Owned \cup Reach(cur, next, Fuel)
        /\ (phase = "live" /\ live = {}) => alloc = {}

\* The last list value is being dropped and its two nodes, owned by nothing
\* else, are still to be freed.
C9_Witness ==
    /\ comp = "third" /\ phase = "dropping" /\ live = {}
    /\ cur # Null /\ next[cur] # Null /\ alloc = {cur, next[cur]}

----------------------------------------------------------------------------
\* Claims about peek and peek_mut

\* C10: peek and peek_mut leave the list's elements and their order as they
\* were and return the head element, which is what pop returns next; a write
\* through peek_mut's reference replaces the head element and nothing else, and
\* the peek or pop right after it returns the value written.
C10_PeekFrame ==
    [][comp = "second" =>
        /\ lastOp' \in {"peek", "peek_mut"} =>
            /\ Walk(head', elem', next', Fuel) = View
            /\ ret' = IF View = <<>> THEN None ELSE Head(View)
        /\ PopStep =>
            ret' = IF View = <<>> THEN None ELSE Head(View)
        /\ lastOp' = "write" =>
            Walk(head', elem', next', Fuel) = <<arg'>> \o Tail(View)
        /\ (lastOp = "write" /\ lastOp' \in {"peek", "pop"}) =>
            ret' = arg]_vars

\* A value was written through peek_mut's reference into the head of a list whose
\* second element differs from it.
C10_Witness ==
    /\ comp = "second" /\ lastOp = "write" /\ mref = head
    /\ Len(View) >= 2 /\ View[1] = arg /\ View[2] # arg

----------------------------------------------------------------------------
\* Claims about teardown, ownership and the shape of the chains

\* A step that is one iteration of a drop loop of first.rs, second.rs or third.rs
\* over a node.
DropIteration == phase = "dropping" /\ comp # "fifth" /\ cur # Null /\ cur' # cur

\* C13: in first.rs, second.rs and third.rs a drop that has begun returns; an
\* iteration of its loop over a node with a single owner destroys that node and
\* no other: its successor stays allocated and becomes the loop's next node, and
\* the destroyed node's link is empty; the number of allocated nodes falls with
\* every such iteration; when the drop of a stack, or of the only list value of
\* third.rs, returns, nothing is allocated.
C13_IterativeTeardown ==
    /\ (phase = "dropping") ~> (phase # "dropping")
    /\ [][/\ (DropIteration /\ (comp = "third" => rc[cur] = 1)) =>
                /\ alloc' = alloc \ {cur}
                /\ Cardinality(alloc') < Cardinality(alloc)
                /\ cur' = next[cur]
                /\ cur' # Null => cur' \in alloc'
                /\ next'[cur] = Null
          /\ (phase = "dropping" /\ comp \in {"first", "second"}) =>
                \/ cur # Null /\ phase' = "dropping"
                \/ cur = Null /\ phase' = "dropped" /\ alloc' = {} /\ head' = Null
          /\ (phase = "dropping" /\ comp = "third" /\ cur = Null /\ live = {}) =>
                alloc' = {} /\ phase' = "live"]_vars

\* A drop loop has freed the first node of a chain of three and stands on the
\* second.
C13_Witness ==
    /\ comp = "first" /\ phase = "dropping" /\ cur # Null
    /\ Cardinality(alloc) = 2 /\ next[cur] # Null /\ alloc = {cur, next[cur]}

\* Following next from p meets no node twice and ends at an absent link.
Acyclic(p) ==
    LET c == Chain(p, next, Fuel) IN
    /\ Len(c) <= NumAddr
    /\ \A i, j \in 1..Len(c) : i # j => c[i] # c[j]

\* C14: in all four list types and in every state, those inside a drop
\* included, the chain from every list's head, and from the node a drop loop
\* holds, meets no node twice and ends at an absent link.
C14_Acyclic ==
    /\ Acyclic(head)
    /\ Acyclic(cur)
    /\ \A h \in live : Acyclic(lhead[h])

\* A queue of three nodes built after the queue had been drained.
C14_Witness ==
    /\ comp = "fifth" /\ emptied /\ Len(Chain(head, next, Fuel)) = NumAddr
    /\ tail # head

\* C15: when the drop loop of third.rs meets a node whose count is greater than
\* one, that count falls by exactly one, no node is destroyed, every other
\* count stays as it was, and the loop ends; a node met with count one is
\* destroyed and the loop goes on with its successor.
C15_DropStopsAtShared ==
    [][(comp = "third" /\ phase = "dropping" /\ cur # Null) =>
        IF rc[cur] > 1
        THEN /\ rc' = [rc EXCEPT ![cur] = rc[cur] - 1]
             /\ alloc' = alloc /\ elem' = elem /\ next' = next
             /\ phase' = "live"
        ELSE /\ alloc' = alloc \ {cur}
             /\ \A a \in Addr \ {cur} : rc'[a] = rc[a]
             /\ cur' = next[cur]
             /\ phase' = "dropping"]_vars

\* A drop has destroyed the head of a three-node chain and stands on its second
\* node, which another list value holds too and which has a successor.
C15_Witness ==
    /\ comp = "third" /\ phase = "dropping" /\ cur # Null /\ rc[cur] = 2
    /\ next[cur] # Null /\ Cardinality(alloc) = 2
    /\ \E h \in live : lhead[h] = cur

\* How many owners node a has in a stack: the list's head, the drop loop's local
\* link, the next link of an allocated node.
StackOwners(a) ==
    (IF head = a THEN 1 ELSE 0) + (IF cur = a THEN 1 ELSE 0)
        + Cardinality({b \in alloc : next[b] = a})

\* C16: in first.rs and second.rs every allocated node has exactly one owner
\* and the allocated nodes are those on the chain from head (inside a drop, from
\* the loop's link); a push allocates exactly one node, and a pop on a non-empty
\* list destroys exactly the node that was the head.
C16_ExclusiveOwnership ==
    /\ [](/\ \A a \in alloc : StackOwners(a) = 1
          /\ alloc = Reach(head, next, Fuel) \cup Reach(cur, next, Fuel))
    /\ [][/\ lastOp' = "push" =>
                /\ Cardinality(alloc' \ alloc) = 1
                /\ alloc \subseteq alloc'
                /\ alloc' \ alloc = {head'}
          /\ (PopStep /\ head # Null) => alloc' = alloc \ {head}
          /\ (PopStep /\ head = Null) => alloc' = alloc]_vars

\* second.rs holds three nodes after three pushes.
C16_Witness ==
    /\ comp = "second" /\ lastOp = "push" /\ emptied = FALSE
    /\ Cardinality(alloc) = NumAddr /\ Len(View) = NumAddr

\* C17: the drop of the queue pops until pop returns None: once begun it
\* returns, each of its pops frees exactly the node that was the head, no node
\* is freed twice, and it returns with head and tail null and nothing allocated.
C17_QueueTeardown ==
    /\ (comp = "fifth" /\ phase = "dropping") ~> (phase = "dropped")
    /\ [](phase = "dropped" =>
            head = Null /\ tail = Null /\ alloc = {} /\ ~fault /\ ret = None)
    /\ [][phase = "dropping" =>
            IF head # Null
            THEN alloc' = alloc \ {head} /\ head \in alloc /\ phase' = "dropping"
            ELSE alloc' = alloc /\ phase' = "dropped"]_vars

\* The drop of a queue of three nodes has freed two of them and has one to go.
C17_Witness ==
    /\ comp = "fifth" /\ phase = "dropping" /\ lastOp = "drop"
    /\ Cardinality(alloc) = 1 /\ head # Null /\ head = tail /\ ret # None

\* The strong references to node a: list values whose head it is, allocated
\* nodes whose next it is, and the local of a running drop.
Holders(a) ==
    Cardinality({h \in live : lhead[h] = a})
        + Cardinality({b \in alloc : next[b] = a})
        + (IF cur = a THEN 1 ELSE 0)

\* C20: between the operations of third.rs every allocated node's count is at
\* least one and is the number of list values whose head it is plus the number
\* of allocated nodes whose next it is; a node that is not allocated counts zero.
C20_CountsMatchHolders ==
    (comp = "third" /\ phase = "live") =>
        \A a \in Addr :
            IF a \in alloc THEN rc[a] >= 1 /\ rc[a] = Holders(a) ELSE rc[a] = 0

\* After a completed drop of one of two list values, a chain of three nodes
\* each held once.
C20_Witness ==
    /\ comp = "third" /\ phase = "live" /\ lastOp = "drop"
    /\ Cardinality(live) = 1 /\ Cardinality(alloc) = NumAddr
    /\ \E a \in alloc : rc[a] = 1 /\ \E b \in alloc : next[b] = a

\* C19: prepend of third.rs allocates exactly one node, whose next is the very
\* node that is the receiver's head, and returns a list headed by the new node;
\* tail allocates nothing and returns a list headed by the receiver's second
\* node; each raises by exactly one the count of the node it shares, if there is
\* one, and changes no other count and no existing link.
C19_ShareNotCopy ==
    [][(comp = "third" /\ phase = "live" /\ lastOp' \in {"prepend", "tail"}) =>
        \E l \in Handle \ live :
            LET h == recv'
                shared == IF lastOp' = "prepend" THEN lhead[h] ELSE lhead'[l]
            IN  /\ h \in live /\ live' = live \cup {l}
                /\ \A a \in alloc : next'[a] = next[a] /\ elem'[a] = elem[a]
                /\ \A a \in alloc :
                        rc'[a] = IF a = shared THEN rc[a] + 1 ELSE rc[a]
                /\ IF lastOp' = "prepend"
                   THEN \E n \in Addr \ alloc :
                            /\ alloc' = alloc \cup {n}
                            /\ next'[n] = lhead[h]
                            /\ lhead'[l] = n
                            /\ rc'[n] = 1
                   ELSE /\ alloc' = alloc
                        /\ lhead'[l] = IF lhead[h] = Null THEN Null
                                       ELSE next[lhead[h]]]_vars

\* A tail has returned a list whose head is the receiver's second node, which
\* is now held twice.
C19_Witness ==
    /\ comp = "third" /\ lastOp = "tail" /\ recv \in live
    /\ lhead[recv] # Null /\ next[lhead[recv]] # Null
    /\ rc[next[lhead[recv]]] = 2
    /\ \E l \in live \ {recv} : lhead[l] = next[lhead[recv]]

----------------------------------------------------------------------------
\* Claims about the iterators

\* A step that creates an iterator, and a step that is a call of its next.
IterCreated == itKind = "none" /\ itKind' # "none"
IterNext == itKind # "none" /\ lastOp' = "next"

\* The elements, head to tail, of the list an iterator is created on: the newest
\* first.
Newest == IF comp = "third" THEN expect[recv] ELSE Reverse(pending)

\* C11: an iterator (IntoIter, Iter, IterMut of second.rs, Iter of third.rs) is
\* created over the list's elements in head-to-tail order, the newest first;
\* while it has returned fewer elements than the list held, next returns the
\* following one; once it has returned them all, next returns None and changes
\* nothing, so that every later call does the same.
C11_IteratorsYieldInOrder ==
    [][/\ IterCreated =>
            /\ out' = <<>>
            /\ snap' = Newest'
            /\ Len(snap') = Cardinality(IF comp = "third"
                                        THEN NodesOf(recv') ELSE alloc)
       /\ IterNext =>
            IF Len(out) < Len(snap)
            THEN /\ ret' = snap[Len(out) + 1]
                 /\ out' = Append(out, ret')
                 /\ snap' = snap /\ itKind' = itKind
            ELSE /\ ret' = None
                 /\ out' = out /\ snap' = snap
                 /\ it' = it /\ itKind' = itKind /\ head' = head]_vars

\* The consuming iterator of second.rs has returned three elements, the first
\* two different, and then None.
C11_Witness ==
    /\ comp = "second" /\ itKind = "into_iter" /\ lastOp = "next" /\ ret = None
    /\ Len(out) = NumAddr /\ out = snap /\ out[1] # out[2]

\* C12: creating a shared-borrow iterator (second.rs, third.rs), calling its
\* next and ending it change neither the nodes nor their elements, links and
\* counts nor any list's head; a new iter() starts at the list's head over all
\* its elements; and a pop of second.rs, whatever iterations went before,
\* returns the element pushed last among those not yet popped.
C12_SharedIterationReadOnly ==
    [][/\ (itKind = "iter" \/ itKind' = "iter") =>
            /\ UNCHANGED <<alloc, elem, next, head, live, lhead, rc>>
            /\ UNCHANGED <<pending, expect>>
       /\ (IterCreated /\ itKind' = "iter") =>
            /\ it' = IF comp = "third" THEN lhead[recv'] ELSE head
            /\ snap' = IF comp = "third" THEN ViewOf(recv') ELSE View
            /\ snap' = Newest'
       /\ (PopStep /\ comp = "second") =>
            ret' = IF pending = <<>> THEN None ELSE pending[Len(pending)]]_vars

\* A shared-borrow iterator of second.rs has returned two of three elements and
\* the list is as it was built.
C12_Witness ==
    /\ comp = "second" /\ itKind = "iter" /\ lastOp = "next"
    /\ Len(out) = 2 /\ Len(snap) = NumAddr /\ out[1] # out[2]
    /\ View = snap /\ pending = Reverse(snap) /\ it # Null

\* The mutable references into the chain that are alive while an IterMut
\* exists: those next has returned, and the cursor's.
MutRefs ==
    Cardinality(yielded) + (IF itKind = "iter_mut" /\ it # Null THEN 1 ELSE 0)

\* C18, as stated: at most one mutable reference into the chain of second.rs is
\* alive at a time.
C18_AtMostOneMutRef == MutRefs <= 1

\* C18, amended: the mutable references alive during an IterMut of second.rs
\* refer to different nodes: next returns a reference into the cursor's node,
\* which it has not returned before, and moves the cursor to the successor, so
\* that the cursor and the nodes after it are never among the nodes whose
\* element reference has been returned.
C18_MutRefsDisjoint ==
    /\ [](itKind = "iter_mut" =>
            /\ yielded \cap Reach(it, next, Fuel) = {}
            /\ yielded \subseteq alloc
            /\ Cardinality(yielded) = Len(out))
    /\ [][(itKind = "iter_mut" /\ lastOp' = "next" /\ it # Null) =>
            /\ it \notin yielded
            /\ yielded' = yielded \cup {it}
            /\ it' = next[it]]_vars

\* An IterMut has returned references into two nodes, the caller has written
\* through one of them, and the cursor stands on a third node.
C18_Witness ==
    /\ comp = "second" /\ itKind = "iter_mut" /\ lastOp = "write_item"
    /\ Cardinality(yielded) = 2 /\ it # Null /\ MutRefs = NumAddr

====
